---- MODULE Spec2Model ----
(***************************************************************************)
(* Model of citnames' semantic recognition core (Tool.cc): the process     *)
(* forest built from an execution report, the breadth first traversal     *)
(* which prunes below a recognized execution, the tool selection (exclude  *)
(* list, ordered list of tools), the tool list of Tools::from, and the     *)
(* pattern of the linker tool (ToolLD.cc).                                 *)
(***************************************************************************)
EXTENDS Integers, Sequences, FiniteSets, TLC

\* ---------------------------------------------------------------- bounds
MaxLen == 3        \* longest execution report
MaxPid == 3        \* process ids are 1..MaxPid, parent ids 0..MaxPid
MaxTools == 2      \* longest tool list in the tool-centred initial states
MaxSteps == MaxLen + 1   \* bfs iterations explored (only reports with a
                         \* repeated pid can need more than Len(report))

Programs == {"cc", "sh"}
Pids == 1..MaxPid
Ppids == 0..MaxPid

\* report::Execution reduced to run.pid, run.ppid and command.program
Execution == [pid : Pids, ppid : Ppids, program : Programs]

\* What a tool's compilations() answers: a failure, or a list of semantics.
\* A semantic is represented by the answer of its into_entry(): TRUE when
\* it yields an Entry.
ParseFailure == "ParseFailure"
CompOutcomes == {[ok |-> FALSE, list |-> <<>>],
                 [ok |-> TRUE, list |-> <<>>],
                 [ok |-> TRUE, list |-> <<TRUE>>],
                 [ok |-> TRUE, list |-> <<FALSE, TRUE>>]}

\* A tool: the programs its recognize() accepts and what compilations() gives
Tool == [recognize : SUBSET Programs, compilations : CompOutcomes]

VARIABLES
    cfg,          \* the Compilation configuration given to Tools::from
    executions,   \* report.executions, the input list
    tools_,       \* Tools::tools_
    to_exclude_,  \* Tools::to_exclude_
    pc,           \* position in Tools::transform
    entries,      \* Forest::entries : id -> index of the record in the list
    nodes,        \* Forest::nodes   : id -> list of child ids
    roots,        \* Forest::roots
    queue,        \* bfs work queue
    semantics,    \* bfs result, the `semantics` local of transform
    result,       \* the Entries returned by transform
    visited,      \* history: the bfs iterations so far
    depths,       \* history: depth of each queue element
    last          \* history: the latest Tools::recognize call

vars == <<cfg, executions, tools_, to_exclude_, pc, entries, nodes, roots, queue,
          semantics, result, visited, depths, last>>

\* ------------------------------------------------------------- utilities
RECURSIVE SeqsUpTo(_, _)
SeqsUpTo(S, n) ==
    IF n = 0 THEN {<<>>}
    ELSE LET shorter == SeqsUpTo(S, n - 1)
         IN shorter \cup {Append(s, x) : s \in {t \in shorter : Len(t) = n - 1}, x \in S}

Range(s) == {s[i] : i \in DOMAIN s}

\* every order in which an unordered container may enumerate the set S
Orders(S) == {s \in [1..Cardinality(S) -> S] : Range(s) = S}

Without(f, k) == [x \in (DOMAIN f) \ {k} |-> f[x]]

\* ------------------------------------------------- Forest<Entry, Id>::Forest
\* entries.emplace, mutated: the record replaces the one the map holds
EmplaceEntryLast(ents, id, i) ==
    IF id \in DOMAIN ents THEN [ents EXCEPT ![id] = i] ELSE ents @@ (id :> i)

\* entries.emplace(id, &entry): emplace leaves an existing key untouched
EmplaceEntry(ents, id, i) ==
    IF id \in DOMAIN ents THEN ents ELSE ents @@ (id :> i)

\* the nodes map, mutated: no element is made for the id of the record
EnsureNodeSkipped(nds, id) == nds

\* the nodes map, mutated: the record of an id starts a new children list,
\* also when its children were logged before it
EnsureNodeFresh(nds, id) == (id :> <<>>) @@ nds

\* put into the nodes map, if it's not yet exists
EnsureNode(nds, id) ==
    IF id \in DOMAIN nds THEN nds ELSE nds @@ (id :> <<>>)

\* the update of the parent element, mutated: a parent element that is
\* created does not get the child
AddChildLost(nds, parent, id) ==
    IF parent \in DOMAIN nds
    THEN [nds EXCEPT ![parent] = Append(@, id)]
    ELSE nds @@ (parent :> <<>>)

\* update (or create) the parent element with the new child
AddChild(nds, parent, id) ==
    IF parent \in DOMAIN nds
    THEN [nds EXCEPT ![parent] = Append(@, id)]
    ELSE nds @@ (parent :> <<id>>)

\* the update of the root nodes, mutated: the id of the record stays a
\* candidate
UpdateMaybeRootsKept(maybe_roots, non_roots, id, parent) ==
    IF parent \notin non_roots \cup {id} THEN maybe_roots \cup {parent} ELSE maybe_roots

\* the update of the root nodes, mutated: the parent becomes a candidate
\* without a look at non_roots
UpdateMaybeRootsUnchecked(maybe_roots, non_roots, id, parent) ==
    (maybe_roots \ {id}) \cup {parent}

\* update the root nodes: maybe_roots after one record
UpdateMaybeRoots(maybe_roots, non_roots, id, parent) ==
    LET erased == maybe_roots \ {id}
        non1 == non_roots \cup {id}
    IN IF parent \notin non1 THEN erased \cup {parent} ELSE erased

\* the body of the loop over the input, for the record at index i
AddRecord(f, input, i) ==
    LET id == input[i].pid
        parent == input[i].ppid
    IN [entries |-> EmplaceEntry(f.entries, id, i),
        nodes |-> AddChild(EnsureNode(f.nodes, id), parent, id),
        maybe_roots |-> UpdateMaybeRoots(f.maybe_roots, f.non_roots, id, parent),
        non_roots |-> f.non_roots \cup {id}]

EmptyMap == [x \in {} |-> 0]

RECURSIVE ReadRecords(_, _)
\* the forest state after the first n records of the input
ReadRecords(input, n) ==
    IF n = 0
    THEN [entries |-> EmptyMap, nodes |-> EmptyMap, maybe_roots |-> {}, non_roots |-> {}]
    ELSE AddRecord(ReadRecords(input, n - 1), input, n)

\* the phantom fix, mutated: the candidate root is kept as a root
FixPhantomKept(g, ents, root) == [g EXCEPT !.new_roots = @ \cup {root}]

\* fixing the phantom root node which has no entry: one candidate root.
\* g.thrown records a failed nodes.at(root)
FixPhantom(g, ents, root) ==
    IF root \notin DOMAIN ents
    THEN IF root \notin DOMAIN g.nodes
         THEN [g EXCEPT !.thrown = TRUE]
         ELSE [nodes |-> Without(g.nodes, root),
               new_roots |-> g.new_roots \cup Range(g.nodes[root]),
               thrown |-> g.thrown]
    ELSE [g EXCEPT !.new_roots = @ \cup {root}]

RECURSIVE FixPhantoms(_, _, _, _)
\* the loop over maybe_roots, enumerated in the order `order`
FixPhantoms(nds, ents, order, n) ==
    IF n = 0
    THEN [nodes |-> nds, new_roots |-> {}, thrown |-> FALSE]
    ELSE LET g == FixPhantoms(nds, ents, order, n - 1)
         IN IF g.thrown THEN g ELSE FixPhantom(g, ents, order[n])

RECURSIVE Insert(_, _)
Insert(sorted, x) ==
    IF sorted = <<>> THEN <<x>>
    ELSE IF x < Head(sorted) THEN <<x>> \o sorted
    ELSE <<Head(sorted)>> \o Insert(Tail(sorted), x)

\* roots.sort(), mutated: the list is left in the order of the copy
SortSkipped(s) == s

RECURSIVE SortAsc(_)
\* roots.sort()
SortAsc(s) == IF s = <<>> THEN <<>> ELSE Insert(SortAsc(Tail(s)), Head(s))

\* ------------------------------------------------------------ Tools::select
Excluded == "Excluded"
Unrecognized == "Unrecognized"

RECURSIVE ScanToolsLast(_, _, _)
\* the loop over tools_, mutated: a later tool that matches replaces an
\* earlier one
ScanToolsLast(tools, program, i) ==
    IF i > Len(tools)
    THEN [ok |-> FALSE, error |-> Unrecognized, tool |-> 0, consulted |-> <<>>]
    ELSE LET rest == ScanToolsLast(tools, program, i + 1)
         IN IF program \in tools[i].recognize /\ ~rest.ok
            THEN [ok |-> TRUE, error |-> "", tool |-> i, consulted |-> <<i>> \o rest.consulted]
            ELSE [rest EXCEPT !.consulted = <<i>> \o @]

RECURSIVE ScanTools(_, _, _)
\* the loop over tools_, from index i; `consulted` lists the tools whose
\* recognize() was called
ScanTools(tools, program, i) ==
    IF i > Len(tools)
    THEN [ok |-> FALSE, error |-> Unrecognized, tool |-> 0, consulted |-> <<>>]
    ELSE IF program \in tools[i].recognize
         THEN [ok |-> TRUE, error |-> "", tool |-> i, consulted |-> <<i>>]
         ELSE LET rest == ScanTools(tools, program, i + 1)
              IN [rest EXCEPT !.consulted = <<i>> \o @]

\* select, mutated: the exclude list counts only when no tool matches
select_tools_first(tools, exclude, program) ==
    LET found == ScanTools(tools, program, 1)
    IN IF found.ok \/ program \notin exclude
       THEN found
       ELSE [ok |-> FALSE, error |-> Excluded, tool |-> 0, consulted |-> found.consulted]

select(tools, exclude, program) ==
    IF program \in exclude
    THEN [ok |-> FALSE, error |-> Excluded, tool |-> 0, consulted |-> <<>>]
    ELSE ScanTools(tools, program, 1)

\* tool->compilations(command) for the record at index src: the produced
\* semantics remember the record and the tool they come from
compilations(tools, t, input, src) ==
    LET out == tools[t].compilations
    IN IF ~out.ok
       THEN [ok |-> FALSE, error |-> ParseFailure, value |-> <<>>]
       ELSE [ok |-> TRUE, error |-> "",
             value |-> [k \in 1..Len(out.list) |->
                          [src |-> src, tool |-> t, k |-> k, entry |-> out.list[k]]]]

\* --------------------------------------------------------- Tools::recognize
\* recognize, mutated: every failure is reported as "not recognized"
recognize_one_kind(tools, exclude, input, src) ==
    LET sel == select(tools, exclude, input[src].program)
    IN IF sel.ok
       THEN LET c == compilations(tools, sel.tool, input, src)
            IN [ok |-> c.ok, error |-> IF c.ok THEN "" ELSE Unrecognized, value |-> c.value,
                src |-> src, sel |-> sel, compiled |-> <<<<sel.tool, src>>>>]
       ELSE [ok |-> FALSE, error |-> Unrecognized, value |-> <<>>,
             src |-> src, sel |-> sel, compiled |-> <<>>]

\* `compiled` lists the (tool, record) pairs compilations() was called with
recognize(tools, exclude, input, src) ==
    LET sel == select(tools, exclude, input[src].program)
    IN IF sel.ok
       THEN LET c == compilations(tools, sel.tool, input, src)
            IN [ok |-> c.ok, error |-> c.error, value |-> c.value,
                src |-> src, sel |-> sel, compiled |-> <<<<sel.tool, src>>>>]
       ELSE [ok |-> FALSE, error |-> sel.error, value |-> <<>>,
             src |-> src, sel |-> sel, compiled |-> <<>>]

\* semantic->into_entry(): the optional Entry, as a list of zero or one
into_entry(semantic) ==
    IF semantic.entry THEN <<[src |-> semantic.src, tool |-> semantic.tool, k |-> semantic.k]>>
    ELSE <<>>

RECURSIVE ProjectBackwards(_)
\* the loop of transform, mutated: each entry is put in front of the result
ProjectBackwards(sems) ==
    IF sems = <<>> THEN <<>> ELSE ProjectBackwards(Tail(sems)) \o into_entry(Head(sems))

RECURSIVE Project(_)
\* the loop of transform over the semantics
Project(sems) ==
    IF sems = <<>> THEN <<>> ELSE into_entry(Head(sems)) \o Project(Tail(sems))


\* -------------------------------------------------------- ToolLD::recognize
\* A program path is a sequence of characters; "/" separates the directories
\* and the line feed stands for the line terminators
Chars == {"/", "l", "d", "b", "\n"}
MaxPath == 3       \* longest program path
Paths == SeqsUpTo(Chars, MaxPath)

LineTerminators == {"\n", "\r"}

\* the index of the last "/" of the path, 0 when there is none
LastSlash(path) ==
    IF \E i \in DOMAIN path : path[i] = "/"
    THEN CHOOSE i \in DOMAIN path :
            path[i] = "/" /\ \A j \in DOMAIN path : path[j] = "/" => j <= i
    ELSE 0

\* fs::path::filename(): what follows the last "/"
filename(path) == SubSeq(path, LastSlash(path) + 1, Len(path))

\* the group (.*): any characters but line terminators
MatchesAny(s) == \A i \in DOMAIN s : s[i] \notin LineTerminators

\* std::regex_match, mutated: the pattern is ^ld$
regex_match_anchored(s) == s = <<"l", "d">>

\* std::regex_match(s, m, pattern) with pattern (.*)ld(.*): the whole of s
\* is some characters, "ld", and some characters
regex_match(s) ==
    \E i \in 0..(Len(s) - 2) :
        /\ MatchesAny(SubSeq(s, 1, i))
        /\ s[i + 1] = "l"
        /\ s[i + 2] = "d"
        /\ MatchesAny(SubSeq(s, i + 3, Len(s)))

ToolLD_recognize(program) == regex_match(filename(program))

\* -------------------------------------------------------------- Tools::from
BuiltIn == <<"GCC", "Clang", "Wrapper", "CUDA", "LD">>

\* a ToolExtendingWrapper made for a compiler of the configuration: it
\* recognizes the program path it is bound to
ToolExtendingWrapper(compiler, out) ==
    [name |-> "ExtendingWrapper", recognize |-> {compiler}, compilations |-> out]

\* the built-in tools; accepts[i] is what the i-th of GCC, Clang, Wrapper and
\* CUDA recognizes among the programs in question, LD recognizes with its
\* pattern
BuiltInTools(accepts, out, programs) ==
    [i \in DOMAIN BuiltIn |->
        [name |-> BuiltIn[i],
         recognize |-> IF BuiltIn[i] = "LD"
                       THEN {p \in programs : ToolLD_recognize(p)}
                       ELSE accepts[i],
         compilations |-> out]]

\* from, mutated: the extending wrappers come before the built-in tools
from_wrappers_first(config, accepts, out, programs) ==
    [i \in DOMAIN config.compilers_to_recognize |->
        ToolExtendingWrapper(config.compilers_to_recognize[i], out)]
    \o BuiltInTools(accepts, out, programs)

\* the tool list of Tools::from(cfg)
from(config, accepts, out, programs) ==
    BuiltInTools(accepts, out, programs)
    \o [i \in DOMAIN config.compilers_to_recognize |->
           ToolExtendingWrapper(config.compilers_to_recognize[i], out)]

\* ------------------------------------------------------------ initial states
\* The tool list used with the longest reports: "cc" is recognized and gives
\* two semantics, "sh" is not recognized
MainTools ==
    [tools |-> <<[recognize |-> {"cc"}, compilations |-> [ok |-> TRUE, list |-> <<FALSE, TRUE>>]]>>,
     exclude |-> {}]

\* Tool lists with the other kinds of answer: an empty list of semantics and
\* an excluded program; a parse failure and a second tool that matches
KindTools ==
    { [tools |-> <<[recognize |-> {"cc", "sh"}, compilations |-> [ok |-> TRUE, list |-> <<>>]]>>,
       exclude |-> {"sh"}],
      [tools |-> <<[recognize |-> {"sh"}, compilations |-> [ok |-> FALSE, list |-> <<>>]],
                   [recognize |-> {"cc", "sh"}, compilations |-> [ok |-> TRUE, list |-> <<TRUE>>]]>>,
       exclude |-> {}] }

NoCall == [ok |-> FALSE, error |-> "", value |-> <<>>, src |-> 0,
           sel |-> [ok |-> FALSE, error |-> "", tool |-> 0, consulted |-> <<>>],
           compiled |-> <<>>]

\* no configuration: the Tools object is made with its constructor
NoConfig == [from |-> FALSE, compilers_to_recognize |-> <<>>, compilers_to_exclude |-> {}]

InitForest ==
    /\ entries = EmptyMap
    /\ nodes = EmptyMap
    /\ roots = <<>>
    /\ queue = <<>>
    /\ semantics = <<>>
    /\ result = <<>>
    /\ visited = <<>>
    /\ depths = <<>>
    /\ last = NoCall

InitRest ==
    /\ cfg = NoConfig
    /\ pc = "build"
    /\ InitForest

\* The program of a record is decided by its pid: either nothing is a
\* compiler, or the processes with an odd pid are
Patterns == {"none", "odd"}

ProgramOf(pattern, pid) ==
    IF pattern = "odd" /\ pid % 2 = 1 THEN "cc" ELSE "sh"

RECURSIVE DistinctSeqsUpTo(_, _)
\* the sequences of at most n elements of S, no element twice
DistinctSeqsUpTo(S, n) ==
    IF n = 0 THEN {<<>>}
    ELSE LET shorter == DistinctSeqsUpTo(S, n - 1)
         IN shorter \cup UNION {{Append(s, x) : x \in S \ Range(s)} :
                                   s \in {t \in shorter : Len(t) = n - 1}}

\* the pid and the parent pid of each record of a report of at most n
\* records in which no pid occurs twice
DistinctLinks(n) ==
    UNION {{[i \in DOMAIN ps |-> [pid |-> ps[i], ppid |-> qs[i]]] :
                qs \in [DOMAIN ps -> Ppids]} :
              ps \in DistinctSeqsUpTo(Pids, n)}

\* the same, when pids may occur again: all the ids are below MaxPid
RepeatedLinks(n) == SeqsUpTo([pid : 1..(MaxPid - 1), ppid : 0..(MaxPid - 1)], n)

Links(n) == DistinctLinks(n) \cup RepeatedLinks(n)

WithPrograms(links, pattern) ==
    [i \in DOMAIN links |->
        [pid |-> links[i].pid, ppid |-> links[i].ppid,
         program |-> ProgramOf(pattern, links[i].pid)]]

\* any parent/child structure up to MaxLen records, with the MainTools; the
\* reports with a repeated pid have compilers
InitReports ==
    /\ \/ \E links \in DistinctLinks(MaxLen), pattern \in Patterns :
              executions = WithPrograms(links, pattern)
       \/ \E links \in RepeatedLinks(MaxLen) :
              executions = WithPrograms(links, "odd")
    /\ tools_ = MainTools.tools
    /\ to_exclude_ = MainTools.exclude
    /\ InitRest

\* any parent/child structure up to MaxLen - 1 records, with one of the
\* KindTools
InitKinds ==
    /\ \E links \in Links(MaxLen - 1), pattern \in Patterns :
           executions = WithPrograms(links, pattern)
    /\ \E c \in KindTools : tools_ = c.tools /\ to_exclude_ = c.exclude
    /\ InitRest

\* any tool list up to MaxTools tools and any exclude list, with a report
\* of one record; a tool fails to parse or gives one semantic
InitTools ==
    /\ \E program \in Programs :
           executions = <<[pid |-> 1, ppid |-> 0, program |-> program]>>
    /\ tools_ \in SeqsUpTo({t \in Tool : t.compilations.ok => t.compilations.list = <<TRUE>>},
                           MaxTools)
    /\ to_exclude_ \in SUBSET Programs
    /\ InitRest

\* two records of one process id, with any programs, with the MainTools
InitRepeats ==
    /\ executions \in [1..2 -> [pid : {1}, ppid : {0, 1}, program : Programs]]
    /\ tools_ = MainTools.tools
    /\ to_exclude_ = MainTools.exclude
    /\ InitRest

InitFrom ==
    /\ pc = "from"
    /\ tools_ = <<>>
    /\ to_exclude_ = {}
    /\ InitForest

\* Tools::from with an empty configuration, and any program path
InitLinker ==
    /\ cfg = [from |-> TRUE, compilers_to_recognize |-> <<>>, compilers_to_exclude |-> {}]
    /\ \E program \in Paths :
           executions = <<[pid |-> 1, ppid |-> 0, program |-> program]>>
    /\ InitFrom

\* the program paths of the configurations
Declared == {<<"l", "d">>, <<"b">>}

\* Tools::from with any compilers to recognize and to exclude, and one of
\* these programs
InitConfigured ==
    /\ \E compilers \in SeqsUpTo(Declared, MaxTools), excluded \in SUBSET Declared :
           cfg = [from |-> TRUE, compilers_to_recognize |-> compilers,
                  compilers_to_exclude |-> excluded]
    /\ \E program \in Declared :
           executions = <<[pid |-> 1, ppid |-> 0, program |-> program]>>
    /\ InitFrom

Init == InitReports \/ InitKinds \/ InitTools \/ InitRepeats \/ InitLinker \/ InitConfigured

\* ------------------------------------------------------- Tools::transform
\* Forest(report.executions, pid, ppid): the constructor, whatever the order
\* in which the two unordered sets are enumerated
Build ==
    /\ pc = "build"
    /\ LET f == ReadRecords(executions, Len(executions))
       IN \E order \in Orders(f.maybe_roots) :
            LET g == FixPhantoms(f.nodes, f.entries, order, Len(order))
            IN \E copied \in Orders(g.new_roots) :
                 /\ entries' = f.entries
                 /\ nodes' = g.nodes
                 /\ IF g.thrown
                    THEN /\ pc' = "fatal"
                         /\ roots' = <<>>
                    ELSE /\ pc' = "bfs"
                         /\ roots' = SortAsc(copied)
                 /\ queue' = roots'           \* std::list<Id> queue = roots
                 /\ depths' = [i \in DOMAIN roots' |-> 0]
    /\ UNCHANGED <<cfg, executions, tools_, to_exclude_, semantics, result, visited, last>>

\* on_success of bfs, mutated: the outputs are put in front of the result
on_success_front(res, outputs) == outputs \o res

\* on_success of bfs: the outputs are appended to the result
on_success(res, outputs) == res \o outputs

\* on_error of bfs, mutated: the children are put in front of the queue
on_error_front(q, nds, id) == nds[id] \o q

\* on_error of bfs: the children of the node go to the back of the queue
on_error(q, nds, id) == q \o nds[id]

\* one iteration of the while loop of bfs
BfsStep ==
    /\ pc = "bfs"
    /\ queue # <<>>
    /\ Len(visited) < MaxSteps
    /\ LET id == Head(queue)
           d == Head(depths)
       IN IF id \notin DOMAIN entries          \* entries.at(id) throws
          THEN /\ pc' = "fatal"
               /\ queue' = Tail(queue)
               /\ depths' = Tail(depths)
               /\ UNCHANGED <<semantics, visited, last>>
          ELSE LET r == recognize(tools_, to_exclude_, executions, entries[id])
               IN /\ last' = r
                  /\ visited' = Append(visited, [id |-> id, depth |-> d, ok |-> r.ok])
                  /\ IF r.ok
                     THEN /\ semantics' = on_success(semantics, r.value)
                          /\ queue' = Tail(queue)
                          /\ depths' = Tail(depths)
                          /\ pc' = pc
                     ELSE IF id \notin DOMAIN nodes     \* nodes.at(id) throws
                          THEN /\ pc' = "fatal"
                               /\ queue' = Tail(queue)
                               /\ depths' = Tail(depths)
                               /\ semantics' = semantics
                          ELSE /\ queue' = on_error(Tail(queue), nodes, id)
                               /\ depths' = Tail(depths) \o [i \in DOMAIN nodes[id] |-> d + 1]
                               /\ semantics' = semantics
                               /\ pc' = pc
    /\ UNCHANGED <<cfg, executions, tools_, to_exclude_, entries, nodes, roots, result>>

\* bfs returns; the semantics are projected into the entries
Finish ==
    /\ pc = "bfs"
    /\ queue = <<>>
    /\ result' = Project(semantics)
    /\ pc' = "done"
    /\ UNCHANGED <<cfg, executions, tools_, to_exclude_, entries, nodes, roots, queue,
                   semantics, visited, depths, last>>

\* the programs in question: those of the report and of the configuration
ProgramsInQuestion ==
    {executions[i].program : i \in DOMAIN executions}
        \cup Range(cfg.compilers_to_recognize) \cup cfg.compilers_to_exclude

\* Tools::from(cfg), whatever GCC, Clang, Wrapper and CUDA recognize and
\* whether the tools can parse the command
From ==
    /\ pc = "from"
    /\ \E accepts \in [1..4 -> {{}, {executions[1].program}}],
          out \in {[ok |-> FALSE, list |-> <<>>], [ok |-> TRUE, list |-> <<TRUE>>]} :
           tools_' = from(cfg, accepts, out, ProgramsInQuestion)
    /\ to_exclude_' = cfg.compilers_to_exclude
    /\ pc' = "build"
    /\ UNCHANGED <<cfg, executions, entries, nodes, roots, queue, semantics, result,
                   visited, depths, last>>

Next == From \/ Build \/ BfsStep \/ Finish

Spec == Init /\ [][Next]_vars

TypeOK ==
    /\ pc \in {"from", "build", "bfs", "done", "fatal"}
    /\ Len(depths) = Len(queue)


\* the constructor of the Forest has run
Constructed == pc \notin {"from", "build"}

\* ------------------------------------------------- the report as a hierarchy
Logged == {executions[i].pid : i \in DOMAIN executions}

UniqueIds ==
    \A i, j \in DOMAIN executions : executions[i].pid = executions[j].pid => i = j

\* the ids of the records which name `a` as their parent
ChildIds(a) == {executions[i].pid : i \in {j \in DOMAIN executions : executions[j].ppid = a}}

RECURSIVE Below(_, _)
\* the ids reached from the set S in at most n parent-to-child steps
Below(S, n) ==
    IF n = 0 THEN S ELSE Below(S \cup UNION {ChildIds(a) : a \in S}, n - 1)

\* the proper descendants of `a` in the process hierarchy
Descendants(a) == Below(ChildIds(a), Len(executions))

\* ------------------------------------------------------------------ claims
\* the record at index r is a descendant of the process `a`: its parent is
\* `a` or a descendant of `a`
Under(r, a) == executions[r].ppid \in {a} \cup Descendants(a)

\* C1 (Pruning): once recognize_fn succeeded on a visited node, no descendant
\* of that node in the process hierarchy is passed to recognize_fn afterwards,
\* and no semantic of the result was produced from such a descendant.
C1_Pruning ==
    \A i \in DOMAIN visited :
        visited[i].ok =>
            /\ \A j \in DOMAIN visited :
                   j > i => ~Under(entries[visited[j].id], visited[i].id)
            /\ \A k \in DOMAIN semantics :
                   semantics[k].src # entries[visited[i].id]
                       => ~Under(semantics[k].src, visited[i].id)

\* the same, for the reports in which no process id is repeated
C1_PruningUniqueIds == UniqueIds => C1_Pruning


\* C2 (Termination without revisits): recognize_fn is invoked at most once
\* per process id, so that the loop of bfs ends after at most one iteration
\* per logged id with an empty queue.
C2_TerminationWithoutRevisits ==
    /\ \A i, j \in DOMAIN visited : visited[i].id = visited[j].id => i = j
    /\ Len(visited) <= Cardinality(Logged)

\* the ids of the records whose parent id is `a`, in the order of the report
RECURSIVE ChildSeqUpTo(_, _)
ChildSeqUpTo(a, n) ==
    IF n = 0 THEN <<>>
    ELSE IF executions[n].ppid = a
         THEN Append(ChildSeqUpTo(a, n - 1), executions[n].pid)
         ELSE ChildSeqUpTo(a, n - 1)

ChildSeq(a) == ChildSeqUpTo(a, Len(executions))

\* the bfs iteration just made, when there is one
Stepped == pc = "bfs" /\ Len(visited') = Len(visited) + 1

\* C3 (Failure is recoverable per node): an iteration whose recognize_fn fails,
\* whatever the kind of the failure, appends the children of the node to the
\* back of the queue in the order of the report, adds nothing to the result
\* and does not end the traversal ...
C3_FailedStep ==
    (Stepped /\ ~visited'[Len(visited')].ok) =>
        /\ last'.error \in {Excluded, Unrecognized, ParseFailure}
        /\ queue' = Tail(queue) \o ChildSeq(Head(queue))
        /\ semantics' = semantics
        /\ pc' = "bfs"

\* ... and each of these children is visited later: it is in the queue until
\* it has been visited, and bfs returns only with an empty queue.
C3_ChildrenPending ==
    /\ \A i \in DOMAIN visited :
           ~visited[i].ok =>
               \A c \in Range(ChildSeq(visited[i].id)) :
                   \/ \E j \in DOMAIN visited : j > i /\ visited[j].id = c
                   \/ c \in Range(queue)
    /\ pc = "done" => queue = <<>>

C3_FailureRecoverable == [][C3_FailedStep]_vars /\ []C3_ChildrenPending

\* a finished traversal in which a node failed with a parse failure and its
\* child was visited after it
C3_Witness ==
    /\ pc = "done"
    /\ \E i \in DOMAIN visited :
          /\ ~visited[i].ok
          /\ recognize(tools_, to_exclude_, executions, entries[visited[i].id]).error = ParseFailure
          /\ ChildSeq(visited[i].id) # <<>>
          /\ \A c \in Range(ChildSeq(visited[i].id)) :
                \E j \in DOMAIN visited : j > i /\ visited[j].id = c

\* the parent ids which have no record of their own
Phantoms == {executions[i].ppid : i \in DOMAIN executions} \ Logged

\* C4 (Phantom-root promotion): after the construction, roots is the ascending
\* sequence without duplicates of the children of the phantoms, and no
\* phantom is a root or a key of the children map.
C4_PhantomPromotion ==
    Constructed =>
        /\ \A i, j \in DOMAIN roots : i < j => roots[i] < roots[j]
        /\ Range(roots) = UNION {Range(ChildSeq(p)) : p \in Phantoms}
        /\ \A p \in Phantoms : p \notin Range(roots) /\ p \notin DOMAIN nodes

\* records 3 and 2 (in this order) with parent 1, and no record for 1
C4_Witness ==
    /\ pc = "bfs"
    /\ Len(executions) = 2
    /\ executions[1].pid = 3 /\ executions[1].ppid = 1
    /\ executions[2].pid = 2 /\ executions[2].ppid = 1
    /\ roots = <<2, 3>>


\* recognize_fn fails on every record of the report
AllFail ==
    \A i \in DOMAIN executions : ~recognize(tools_, to_exclude_, executions, i).ok

\* how often the id was taken from the queue
Visits(id) == Cardinality({i \in DOMAIN visited : visited[i].id = id})

\* no record lies on a cycle of parent ids
NoParentCycle == \A id \in Logged : id \notin Descendants(id)

\* C5 as stated (Forest reconstruction round trip): for a report in which
\* every id is logged once, the breadth first flattening of the forest (the
\* visits of bfs when every recognition fails) holds every id of the report
\* exactly once.
C5_RoundTripAnyReport ==
    (pc = "done" /\ UniqueIds /\ AllFail) => \A id \in Logged : Visits(id) = 1

\* C5 amended: for a report in which every id is logged once and no record
\* lies on a cycle of parent ids, the breadth first flattening of the forest
\* holds every id of the report exactly once.
C5_RoundTrip ==
    (pc = "done" /\ UniqueIds /\ NoParentCycle /\ AllFail)
        => /\ \A id \in Logged : Visits(id) = 1
           /\ Len(visited) = Len(executions)

\* a chain of three records, flattened
C5_Witness ==
    /\ pc = "done" /\ UniqueIds /\ NoParentCycle /\ AllFail
    /\ Len(executions) = 3
    /\ \E i \in DOMAIN visited : visited[i].depth = 2


\* the program of the latest recognize call, and the tools which match it
LastProgram == executions[last.src].program

Matching == {t \in DOMAIN tools_ : LastProgram \in tools_[t].recognize}

\* C6 (Exclude precedence): for a program of the exclude list, select gives
\* the Excluded error and calls recognize() on no tool, also when a tool
\* would match; the command is never matched.
C6_ExcludePrecedence ==
    (last.src # 0 /\ LastProgram \in to_exclude_) =>
        /\ ~last.sel.ok
        /\ last.sel.error = Excluded
        /\ last.sel.consulted = <<>>
        /\ last.compiled = <<>>
        /\ ~last.ok

\* an excluded program which the first tool matches
C6_Witness ==
    /\ last.src # 0
    /\ LastProgram \in to_exclude_
    /\ 1 \in Matching
    /\ last.sel.error = Excluded

\* C7 (Recognizer order): for a program that is not excluded, select gives
\* the matching tool of smallest index, having consulted the tools up to it
\* and none after it, and gives the Unrecognized error exactly when no tool
\* of the list matches.
C7_RecognizerOrder ==
    (last.src # 0 /\ LastProgram \notin to_exclude_) =>
        /\ Matching # {} =>
              /\ last.sel.ok
              /\ last.sel.tool \in Matching
              /\ \A t \in Matching : last.sel.tool <= t
              /\ last.sel.consulted = [i \in 1..last.sel.tool |-> i]
        /\ Matching = {} =>
              /\ ~last.sel.ok
              /\ last.sel.consulted = [i \in 1..Len(tools_) |-> i]
        /\ (last.sel.error = Unrecognized) <=> (Matching = {})

\* two tools match the program, the first is selected
C7_Witness ==
    /\ last.src # 0
    /\ LastProgram \notin to_exclude_
    /\ Matching = {1, 2}
    /\ last.sel.ok /\ last.sel.tool = 1

\* C9 (recognize composes select and compilations): compilations is called
\* only when select succeeded, on the selected tool and with the command of
\* the execution; the result fails exactly when one of the two stages failed,
\* with the error of that stage: Excluded or Unrecognized from select, the
\* parse failure from the tool.
C9_RecognizeComposes ==
    last.src # 0 =>
        LET sel == last.sel
            answer == tools_[sel.tool].compilations
        IN /\ sel.ok => last.compiled = <<<<sel.tool, last.src>>>>
           /\ ~sel.ok => last.compiled = <<>>
           /\ last.ok <=> (sel.ok /\ answer.ok)
           /\ ~sel.ok => /\ last.error = sel.error
                         /\ last.error = IF LastProgram \in to_exclude_
                                         THEN Excluded ELSE Unrecognized
           /\ (sel.ok /\ ~answer.ok) => last.error = ParseFailure
           /\ last.ok => /\ Len(last.value) = Len(answer.list)
                         /\ \A k \in DOMAIN last.value :
                               /\ last.value[k].src = last.src
                               /\ last.value[k].tool = sel.tool

\* the second tool is selected and fails to parse the command
C9_Witness ==
    /\ last.src # 0
    /\ last.sel.ok /\ last.sel.tool = 2
    /\ last.error = ParseFailure
    /\ \E t \in DOMAIN tools_ : tools_[t].compilations.ok


RECURSIVE Concat(_)
\* the concatenation of a sequence of sequences
Concat(ss) == IF ss = <<>> THEN <<>> ELSE Head(ss) \o Concat(Tail(ss))

VisitedIds == [i \in DOMAIN visited |-> visited[i].id]

\* for each iteration made, the children it has put in the queue
Enqueued ==
    [i \in DOMAIN visited |->
        IF visited[i].ok THEN <<>> ELSE ChildSeq(visited[i].id)]

\* for each iteration made, the semantics it has produced
Produced ==
    [i \in DOMAIN visited |->
        recognize(tools_, to_exclude_, executions, entries[visited[i].id]).value]

\* the visits made at depth d, in the order of the visits
RECURSIVE LevelUpTo(_, _)
LevelUpTo(d, n) ==
    IF n = 0 THEN <<>>
    ELSE IF visited[n].depth = d
         THEN Append(LevelUpTo(d, n - 1), visited[n])
         ELSE LevelUpTo(d, n - 1)

Level(d) == LevelUpTo(d, Len(visited))

RECURSIVE HierarchyDepth(_, _)
\* the number of logged ancestors of the record with this id
HierarchyDepth(id, fuel) ==
    LET parent == executions[CHOOSE i \in DOMAIN executions : executions[i].pid = id].ppid
    IN IF parent \notin Logged \/ fuel = 0 THEN 0
       ELSE 1 + HierarchyDepth(parent, fuel - 1)

\* C8 (Output ordering): the result is the concatenation, in visit order, of
\* the semantics of the recognized nodes; the visits are breadth first: the
\* roots in ascending order, then level by level the children of the failed
\* nodes, in the order in which their parents were visited and, for one
\* parent, in the order of the report; no node is visited before a visited
\* node of smaller depth.
C8_OutputOrdering ==
    pc \in {"bfs", "done"} =>
        /\ semantics = Concat(Produced)
        /\ \A i, j \in DOMAIN roots : i < j => roots[i] < roots[j]
        /\ VisitedIds \o queue = roots \o Concat(Enqueued)
        /\ \A i, j \in DOMAIN visited : i < j => visited[i].depth <= visited[j].depth
        /\ UniqueIds =>
              \A i \in DOMAIN visited :
                  visited[i].depth = HierarchyDepth(visited[i].id, Len(executions))
        /\ pc = "done" =>
              /\ [i \in DOMAIN Level(0) |-> Level(0)[i].id] = roots
              /\ \A d \in 0..Len(visited) :
                    [i \in DOMAIN Level(d + 1) |-> Level(d + 1)[i].id]
                        = Concat([i \in DOMAIN Level(d) |->
                                     IF Level(d)[i].ok THEN <<>>
                                     ELSE ChildSeq(Level(d)[i].id)])

\* a failed root whose two children, logged with the larger id first, are
\* both recognized: their semantics follow the order of the report
C8_Witness ==
    /\ pc = "done"
    /\ UniqueIds
    /\ Len(visited) = 3
    /\ ~visited[1].ok /\ visited[2].ok /\ visited[3].ok
    /\ visited[2].id > visited[3].id
    /\ Len(semantics) = 4
    /\ semantics[1].src = entries[visited[2].id]
    /\ semantics[3].src = entries[visited[3].id]


RecordsOf(id) == {i \in DOMAIN executions : executions[i].pid = id}

FirstRecord(id) == CHOOSE i \in RecordsOf(id) : \A j \in RecordsOf(id) : i <= j

LastRecord(id) == CHOOSE i \in RecordsOf(id) : \A j \in RecordsOf(id) : i >= j

\* how often the id occurs in the list
Occurrences(s, id) == Cardinality({i \in DOMAIN s : s[i] = id})

\* the records of a process id are not deduplicated: the id is once in the
\* children list of its parent for each record naming that parent (a phantom
\* parent has no list any more)
NotDeduplicated ==
    \A i \in DOMAIN executions :
        executions[i].ppid \in DOMAIN nodes =>
            Occurrences(nodes[executions[i].ppid], executions[i].pid)
                = Cardinality({j \in RecordsOf(executions[i].pid) :
                                  executions[j].ppid = executions[i].ppid})

\* C11 as stated (Duplicate ids): the records of a process id are not
\* deduplicated, the id->entry map refers to the last record of the id in the
\* order of the report, and the traversal passes that last record to
\* recognize_fn.
C11_LastRecordWins ==
    Constructed =>
        /\ NotDeduplicated
        /\ \A id \in Logged : entries[id] = LastRecord(id)
        /\ last.src # 0 => last.src = LastRecord(executions[last.src].pid)

\* C11 amended: the records of a process id are not deduplicated, the
\* id->entry map refers to the first record of the id in the order of the
\* report, and the traversal passes that first record to recognize_fn.
C11_FirstRecordWins ==
    Constructed =>
        /\ NotDeduplicated
        /\ DOMAIN entries = Logged
        /\ \A id \in Logged : entries[id] = FirstRecord(id)
        /\ visited # <<>> =>
              /\ last.src = FirstRecord(visited[Len(visited)].id)
              /\ executions[last.src].pid = visited[Len(visited)].id

\* a process id logged first with a compiler and then with another program:
\* the traversal has passed the first record, which was recognized
C11_Witness ==
    /\ Len(executions) = 2
    /\ executions[1].pid = executions[2].pid
    /\ executions[1].program = "cc" /\ executions[2].program = "sh"
    /\ Len(visited) = 1
    /\ last.src = 1 /\ last.ok

\* the semantic has an Entry to give
YieldsEntry(semantic) == semantic.entry

\* the semantics which have an Entry to give, in the order of the traversal
Kept == SelectSeq(semantics, YieldsEntry)

\* C12 (Projection): the list returned by transform holds, for each semantic
\* of the traversal result which yields an Entry, that Entry once, in the
\* order of the semantics, and nothing for the others; it is never longer than
\* the list of semantics, and it is empty until the traversal has returned.
C12_Projection ==
    /\ pc = "done" =>
          /\ Len(result) = Len(Kept)
          /\ \A i \in DOMAIN result :
                /\ result[i].src = Kept[i].src
                /\ result[i].tool = Kept[i].tool
                /\ result[i].k = Kept[i].k
          /\ Len(result) <= Len(semantics)
    /\ pc # "done" => result = <<>>

\* two recognized records, each with a semantic that yields no Entry and one
\* that does: two of the four semantics are dropped
C12_Witness ==
    /\ pc = "done"
    /\ Len(semantics) = 4
    /\ Len(result) = 2
    /\ result[1].src # result[2].src
    /\ ~semantics[1].entry /\ semantics[2].entry

RECURSIVE Ascending(_)
\* the elements of a set of ids, ascending
Ascending(S) ==
    IF S = {} THEN <<>>
    ELSE LET m == CHOOSE x \in S : \A y \in S : x <= y
         IN <<m>> \o Ascending(S \ {m})

\* the roots as the report alone decides them
ReportRoots == Ascending(UNION {Range(ChildSeq(p)) : p \in Phantoms})

RECURSIVE ReportBfs(_, _)
\* the semantics of the traversal as the report and the tools alone decide
\* them: breadth first from the queue q, at most `fuel` iterations
ReportBfs(q, fuel) ==
    IF q = <<>> \/ fuel = 0 THEN <<>>
    ELSE LET r == recognize(tools_, to_exclude_, executions, FirstRecord(Head(q)))
         IN IF r.ok
            THEN r.value \o ReportBfs(Tail(q), fuel - 1)
            ELSE ReportBfs(Tail(q) \o ChildSeq(Head(q)), fuel - 1)

ReportSemantics == ReportBfs(ReportRoots, MaxSteps)

\* C13 (Determinism): for a fixed report, tool list and exclude list the
\* pipeline has one outcome: whatever the order in which the unordered set of
\* candidate roots and the unordered set of promoted roots are enumerated,
\* the construction gives the entries, children lists and roots it has given,
\* and the semantics and the returned entries are those which the report and
\* the tools alone decide.
C13_Determinism ==
    /\ (pc = "bfs" /\ visited = <<>>) =>
          LET f == ReadRecords(executions, Len(executions))
          IN /\ entries = f.entries
             /\ \A order \in Orders(f.maybe_roots) :
                   LET g == FixPhantoms(f.nodes, f.entries, order, Len(order))
                   IN /\ ~g.thrown
                      /\ nodes = g.nodes
                      /\ \A copied \in Orders(g.new_roots) : roots = SortAsc(copied)
    /\ pc = "done" =>
          /\ roots = ReportRoots
          /\ semantics = ReportSemantics
          /\ Len(result) = Len(SelectSeq(ReportSemantics, YieldsEntry))
          /\ \A i \in DOMAIN result :
                result[i].src = SelectSeq(ReportSemantics, YieldsEntry)[i].src

\* a report with two phantom parents and two promoted roots, both recognized
C13_Witness ==
    /\ pc = "done"
    /\ Cardinality(Phantoms) = 2
    /\ Len(roots) = 2
    /\ Len(result) = 2

\* C14 (Single parent): after the construction, every logged id which is not
\* in roots occurs in the children list of exactly one key of the children
\* map, and occurs there exactly once.
C14_SingleParent ==
    Constructed =>
        \A id \in Logged \ Range(roots) :
            \E p \in DOMAIN nodes :
                /\ Occurrences(nodes[p], id) = 1
                /\ \A q \in (DOMAIN nodes) \ {p} : Occurrences(nodes[q], id) = 0

\* the same, for the reports in which no process id is repeated
C14_SingleParentUniqueIds == UniqueIds => C14_SingleParent

RECURSIVE ReachUpTo(_, _)
\* the ids reached from the set S through at most n children lists
ReachUpTo(S, n) ==
    IF n = 0 THEN S
    ELSE ReachUpTo(S \cup UNION {Range(nodes[a]) : a \in S \cap DOMAIN nodes}, n - 1)

\* the ids reachable from the root through the children lists
Reach(root) == ReachUpTo({root}, Cardinality(DOMAIN nodes))

RECURSIVE TreeBfs(_, _)
\* a traversal of its own for the queue q: the ids it visits and the
\* semantics it collects, within `fuel` iterations
TreeBfs(q, fuel) ==
    IF q = <<>> \/ fuel = 0 THEN [ids |-> {}, sems |-> {}]
    ELSE LET r == recognize(tools_, to_exclude_, executions, entries[Head(q)])
             rest == IF r.ok THEN TreeBfs(Tail(q), fuel - 1)
                     ELSE TreeBfs(Tail(q) \o nodes[Head(q)], fuel - 1)
         IN [ids |-> {Head(q)} \cup rest.ids, sems |-> Range(r.value) \cup rest.sems]

\* C15 (Root independence): the sets of ids reachable from two distinct roots
\* through the children lists are disjoint, so that the traversals of the
\* roots, each made on its own, visit together the nodes which the
\* sequential bfs visits and give, for each root, the semantics which the
\* sequential bfs has collected below that root.
C15_RootIndependence ==
    /\ Constructed =>
          \A r1, r2 \in Range(roots) : r1 # r2 => Reach(r1) \cap Reach(r2) = {}
    /\ pc = "done" =>
          /\ Range(VisitedIds) = UNION {TreeBfs(<<r>>, MaxSteps).ids : r \in Range(roots)}
          /\ \A r \in Range(roots) :
                TreeBfs(<<r>>, MaxSteps).sems
                    = {s \in Range(semantics) : executions[s.src].pid \in Reach(r)}

\* the same, for the reports in which no process id is repeated
C15_RootIndependenceUniqueIds == UniqueIds => C15_RootIndependence

\* C16 (Children lists follow the log): after the construction, the children
\* list of every logged id p is the sequence of the ids of the records whose
\* parent id is p, in the order of the report (empty when there is none),
\* whether the record of p comes before or after the records of its children.
C16_ChildrenFollowLog ==
    Constructed =>
        \A p \in Logged :
            /\ p \in DOMAIN nodes
            /\ nodes[p] = ChildSeq(p)
            /\ (\A i \in DOMAIN executions : executions[i].ppid # p) => nodes[p] = <<>>

\* two children logged before their parent, the larger id first
C16_Witness ==
    /\ Constructed
    /\ UniqueIds
    /\ Len(executions) = 3
    /\ executions[1].ppid = executions[3].pid
    /\ executions[2].ppid = executions[3].pid
    /\ executions[1].pid > executions[2].pid
    /\ nodes[executions[3].pid] = <<executions[1].pid, executions[2].pid>>
    /\ nodes[executions[1].pid] = <<>>

\* the candidate roots left when the loop over the records ends
CandidateRoots == ReadRecords(executions, Len(executions)).maybe_roots

\* C17 (Implicit, only phantoms are candidates): every candidate root left at
\* the end of the loop over the records is a phantom, an id without a record,
\* so that the branch which keeps a candidate as a real root is never taken;
\* after the construction the children map and the entry map have the same
\* keys, the logged ids, and every id in roots has a record.
C17_OnlyPhantomCandidates ==
    /\ pc = "build" =>
          /\ CandidateRoots \cap Logged = {}
          /\ CandidateRoots = Phantoms
    /\ Constructed =>
          /\ DOMAIN nodes = DOMAIN entries
          /\ DOMAIN entries = Logged
          /\ Range(roots) \subseteq Logged

\* a child logged before its parent: the parent was a candidate root until
\* its own record came, and is a root (its parent is a phantom) in the end
C17_Witness ==
    /\ pc = "bfs"
    /\ UniqueIds
    /\ Len(executions) = 2
    /\ executions[1].ppid = executions[2].pid
    /\ ReadRecords(executions, 1).maybe_roots = {executions[2].pid}
    /\ roots = <<executions[2].pid>>
    /\ DOMAIN nodes = {executions[1].pid, executions[2].pid}

\* the logged ids which lie on a cycle of parent ids
OnCycle == {c \in Logged : c \in Descendants(c)}

\* the logged ids on such a cycle or with an ancestor on one
CycleBound == OnCycle \cup UNION {Descendants(c) : c \in OnCycle}

\* C18 (Implicit, parent cycles are unreachable): with unique process ids, a
\* record on a cycle of parent ids, and every record with an ancestor on such
\* a cycle, is never a root, is never passed to recognize_fn and gives no
\* semantic, whatever the tools answer.
C18_CyclesUnreachable ==
    UniqueIds =>
        \A id \in CycleBound :
            /\ id \notin Range(roots)
            /\ id \notin Range(queue)
            /\ id \notin Range(VisitedIds)
            /\ last.src # 0 => executions[last.src].pid # id
            /\ \A k \in DOMAIN semantics : executions[semantics[k].src].pid # id
            /\ \A k \in DOMAIN result : executions[result[k].src].pid # id

\* a finished traversal of a report with a compiler that is its own parent,
\* a child of it, and an ordinary root: only the root was visited
C18_Witness ==
    /\ pc = "done"
    /\ UniqueIds
    /\ Len(executions) = 3
    /\ \E c \in OnCycle : recognize(tools_, to_exclude_, executions, FirstRecord(c)).ok
    /\ Cardinality(CycleBound) = 2
    /\ Cardinality(OnCycle) = 1
    /\ Len(visited) = 1

\* the Tools object was made by Tools::from
FromConfig == cfg.from /\ pc # "from"

\* the positions of the built-in tools which recognize the program
BuiltInMatching(program) == {t \in DOMAIN BuiltIn : program \in tools_[t].recognize}

\* C19 (Implicit, built-in tools come first): the list built by Tools::from
\* holds GCC, Clang, Wrapper, CUDA and LD in this order, followed by one
\* extending wrapper for each of the compilers to recognize, in the order of
\* the configuration; hence a declared program which a built-in tool also
\* recognizes is selected, when it is not excluded, with the first such
\* built-in tool, and never with its extending wrapper.
C19_BuiltInFirst ==
    FromConfig =>
        /\ Len(tools_) = Len(BuiltIn) + Len(cfg.compilers_to_recognize)
        /\ \A t \in DOMAIN BuiltIn : tools_[t].name = BuiltIn[t]
        /\ \A i \in DOMAIN cfg.compilers_to_recognize :
              /\ tools_[Len(BuiltIn) + i].name = "ExtendingWrapper"
              /\ tools_[Len(BuiltIn) + i].recognize = {cfg.compilers_to_recognize[i]}
        /\ to_exclude_ = cfg.compilers_to_exclude
        /\ (/\ last.src # 0
            /\ LastProgram \in Range(cfg.compilers_to_recognize)
            /\ BuiltInMatching(LastProgram) # {}) =>
               /\ last.sel.ok <=> LastProgram \notin to_exclude_
               /\ last.sel.ok =>
                     /\ last.sel.tool \in BuiltInMatching(LastProgram)
                     /\ \A t \in BuiltInMatching(LastProgram) : last.sel.tool <= t
                     /\ tools_[last.sel.tool].name # "ExtendingWrapper"

\* the declared program "ld", which only LD recognizes among the built-in
\* tools, was selected with LD and not with its extending wrapper
C19_Witness ==
    /\ FromConfig
    /\ last.src # 0
    /\ LastProgram = <<"l", "d">>
    /\ cfg.compilers_to_recognize = <<<<"b">>, <<"l", "d">>>>
    /\ BuiltInMatching(LastProgram) = {5}
    /\ last.sel.ok /\ last.sel.tool = 5
    /\ tools_[7].recognize = {LastProgram}

\* the characters "l", "d" follow each other somewhere in s
ContainsLd(s) == \E i \in 1..(Len(s) - 1) : s[i] = "l" /\ s[i + 1] = "d"

\* the path made of the file name alone
WithoutDirectory(path) == filename(path)

\* what select finds for the program when LD is the first tool asked which
\* may recognize it
LdDecides ==
    /\ last.src # 0
    /\ LastProgram \notin to_exclude_
    /\ \A t \in 1..4 : LastProgram \notin tools_[t].recognize

\* C20 as stated (ToolLD::recognize is a substring match): LD recognizes a
\* program exactly when the file name of its path contains "ld", whatever
\* the directories of the path.
C20_LdSubstringMatch ==
    FromConfig =>
        \A p \in ProgramsInQuestion :
            /\ p \in tools_[5].recognize <=> ContainsLd(filename(p))
            /\ ToolLD_recognize(p) <=> ToolLD_recognize(WithoutDirectory(p))

\* C20 amended: LD recognizes a program exactly when the file name of its
\* path contains "ld" and holds no line terminator, whatever the directories
\* of the path; a program which the tools before LD do not recognize is
\* selected with LD exactly in this case.
C20_LdSubstringOfOneLine ==
    FromConfig =>
        /\ \A p \in ProgramsInQuestion :
              /\ p \in tools_[5].recognize <=>
                    (ContainsLd(filename(p)) /\ \A i \in DOMAIN filename(p) : filename(p)[i] \notin {"\n", "\r"})
              /\ ToolLD_recognize(p) <=> ToolLD_recognize(WithoutDirectory(p))
        /\ LdDecides =>
              ((last.sel.ok /\ last.sel.tool = 5) <=>
                   (ContainsLd(filename(LastProgram))
                       /\ \A i \in DOMAIN filename(LastProgram) : filename(LastProgram)[i] \notin {"\n", "\r"}))

\* the program "bld" (as in "build") was selected with LD
C20_Witness ==
    /\ FromConfig
    /\ LdDecides
    /\ LastProgram = <<"b", "l", "d">>
    /\ last.sel.ok /\ last.sel.tool = 5


====
